---------------------------- MODULE Spec2Model ----------------------------
(***************************************************************************)
(* A model of pz_mod_info_tool.py (Dusk's Project Zomboid Mod Browser):    *)
(* the mod.info parser, the directory scan, the table filter and sort, and *)
(* the CSV export of class ModInfoApp.                                     *)
(*                                                                         *)
(* Python strings are sequences of one-character strings, so that strip,   *)
(* split, lower, startswith, in and the ordering of str are computed     *)
(* character by character as Python computes them.                         *)
(***************************************************************************)
EXTENDS Integers, Sequences, FiniteSets, TLC

(***************************************************************************)
(* Characters and str operations                                           *)
(***************************************************************************)

\* The printable ASCII characters in code point order: Ascii[i] is chr(31 + i)
\* (the grave accent, which a TLA+ string cannot hold, is written chr96).
Ascii ==
  << " ", "!", "\"", "#", "$", "%", "&", "'", "(", ")", "*", "+", ",", "-", ".", "/",
     "0", "1", "2", "3", "4", "5", "6", "7", "8", "9", ":", ";", "<", "=", ">", "?",
     "@", "A", "B", "C", "D", "E", "F", "G", "H", "I", "J", "K", "L", "M", "N", "O",
     "P", "Q", "R", "S", "T", "U", "V", "W", "X", "Y", "Z", "[", "\\", "]", "^", "_",
     "chr96", "a", "b", "c", "d", "e", "f", "g", "h", "i", "j", "k", "l", "m", "n", "o",
     "p", "q", "r", "s", "t", "u", "v", "w", "x", "y", "z", "{", "|", "}", "~" >>

\* ord(c) for the characters of the model: the tab and the printable ASCII.
OrdTable ==
  [c \in {Ascii[i] : i \in 1..Len(Ascii)} \cup {"\t"} |->
     IF c = "\t" THEN 9
     ELSE 31 + (CHOOSE i \in 1..Len(Ascii) : Ascii[i] = c)]

Ord(c) == OrdTable[c]

\* str.lower() of one character: the capitals (65..90) map to the small letters.
LowerChar(c) ==
  IF Ord(c) >= 65 /\ Ord(c) <= 90 THEN Ascii[Ord(c) + 32 - 31] ELSE c

\* s.lower()
Lower(s) == [i \in 1..Len(s) |-> LowerChar(s[i])]

\* The characters str.strip() removes (of those the model writes).
WhiteSpace == {" ", "\t"}

\* s[i:] for a 0-based i, and s[:j]
From(s, i) == SubSeq(s, i + 1, Len(s))
Upto(s, j) == SubSeq(s, 1, j)

\* s.lstrip(chars), s.rstrip(chars), s.strip(chars): every leading and every
\* trailing character of the set goes, not only one.
RECURSIVE LStripChars(_, _)
LStripChars(s, chars) ==
  IF s # << >> /\ Head(s) \in chars THEN LStripChars(Tail(s), chars) ELSE s

RECURSIVE RStripChars(_, _)
RStripChars(s, chars) ==
  IF s # << >> /\ s[Len(s)] \in chars
  THEN RStripChars(Upto(s, Len(s) - 1), chars) ELSE s

StripChars(s, chars) == RStripChars(LStripChars(s, chars), chars)

\* s.strip()
Strip(s) == StripChars(s, WhiteSpace)

\* s.startswith(p)
StartsWith(s, p) == Len(s) >= Len(p) /\ Upto(s, Len(p)) = p

\* q in s   (substring test; the empty q is in every s)
IsIn(q, s) ==
  \E i \in 0..(Len(s) - Len(q)) : SubSeq(s, i + 1, i + Len(q)) = q

\* s.find(c) + 1 for a character c: the 1-based place of the first c, 0 if none.
FirstIndex(s, c) ==
  IF \E i \in 1..Len(s) : s[i] = c
  THEN CHOOSE i \in 1..Len(s) : s[i] = c /\ \A j \in 1..(i - 1) : s[j] # c
  ELSE 0

\* s.split(c, 1): the text before the first c and the text after it.
SplitOnce(s, c) ==
  LET i == FirstIndex(s, c)
  IN  IF i = 0 THEN << s >> ELSE << Upto(s, i - 1), From(s, i) >>

\* s.split(c)[0]
FirstSegment(s, c) == SplitOnce(s, c)[1]

(***************************************************************************)
(* Optional[str]: None, or a str                                           *)
(***************************************************************************)

None == [some |-> FALSE, val |-> << >>]
Some(v) == [some |-> TRUE, val |-> v]

\* Python's truth value of an Optional[str]: None and the empty str are false.
Truthy(o) == o.some /\ o.val # << >>

(***************************************************************************)
(* Files and directories                                                   *)
(*                                                                         *)
(* A text file is [runs, readable]: readable says whether open() succeeds, *)
(* and runs is its text as a sequence of runs [line, count], count copies  *)
(* of one line (without its line break), so that a file longer than the    *)
(* parser's line limit is a short value.                                   *)
(*                                                                         *)
(* A mod directory is [direct, nested]: direct holds the mod.info that is  *)
(* an immediate child (a sequence of length 0 or 1), nested the mod.info   *)
(* files below it in the order os.walk meets them (directories os.walk     *)
(* cannot list are skipped by os.walk itself and hold nothing here).       *)
(***************************************************************************)

\* The parser reads no line after this one (line_num > 500: break).
LineLimit == 500

Run(line, count) == [line |-> line, count |-> count]
TextFile(runs, readable) == [runs |-> runs, readable |-> readable]
ModDir(direct, nested) == [direct |-> direct, nested |-> nested]

\* The number of lines of a text.
RECURSIVE LineCount(_)
LineCount(runs) ==
  IF runs = << >> THEN 0 ELSE Head(runs).count + LineCount(Tail(runs))

(***************************************************************************)
(* ModInfoApp._read_mod_info                                               *)
(***************************************************************************)

\* find_modinfo(root): the direct child first, else the first os.walk meets,
\* else None (a sequence of length 0 or 1).
find_modinfo(dir) ==
  IF dir.direct # << >> THEN << dir.direct[1] >>
  ELSE IF dir.nested # << >> THEN << dir.nested[1] >>
  ELSE << >>

\* The test of line 557: the stripped line is skipped when it is empty, has
\* no = or starts with # or //.
Skipped(line) ==
  \/ line = << >>
  \/ ~IsIn(<< "=" >>, line)
  \/ StartsWith(line, << "#" >>)
  \/ StartsWith(line, << "/", "/" >>)

\* key, value = line.split("=", 1); key.strip().lower()
KeyOf(line) == Lower(Strip(SplitOnce(line, "=")[1]))

\* ValueOf stripping one pair of quotes, not every quote around the value.
ValueOfOneLayer(line) ==
  LET v == Strip(SplitOnce(line, "=")[2])
  IN  IF Len(v) >= 2 /\ v[1] = v[Len(v)] /\ v[1] \in {"\"", "'"}
      THEN SubSeq(v, 2, Len(v) - 1)
      ELSE v

\* value.strip().strip('"').strip("'")
ValueOf(line) ==
  StripChars(StripChars(Strip(SplitOnce(line, "=")[2]), {"\""}), {"'"})

\* Capture keeping the whole id value, not its first segment.
CaptureWholeValue(key, value, st) ==
  IF key = << "n", "a", "m", "e" >> /\ ~Truthy(st.name) /\ value # << >>
  THEN [st EXCEPT !.name = Some(value)]
  ELSE IF key = << "i", "d" >> /\ ~Truthy(st.modid) /\ value # << >>
  THEN [st EXCEPT !.modid = Some(value)]
  ELSE st

\* Capture without the tests not name and not modid: the last line wins.
CaptureLastWins(key, value, st) ==
  IF key = << "n", "a", "m", "e" >> /\ value # << >>
  THEN [st EXCEPT !.name = Some(value)]
  ELSE IF key = << "i", "d" >> /\ value # << >>
  THEN [st EXCEPT !.modid = Some(Strip(FirstSegment(value, ";")))]
  ELSE st

\* The assignments of lines 566-570 for one accepted line; st is [name, modid].
Capture(key, value, st) ==
  IF key = << "n", "a", "m", "e" >> /\ ~Truthy(st.name) /\ value # << >>
  THEN [st EXCEPT !.name = Some(value)]
  ELSE IF key = << "i", "d" >> /\ ~Truthy(st.modid) /\ value # << >>
  THEN [st EXCEPT !.modid = Some(Strip(FirstSegment(value, ";")))]
  ELSE st

\* The body of the for loop for one raw line, up to the early-exit test.
ParseLine(raw_line, st) ==
  LET line == Strip(raw_line)
  IN  IF Skipped(line) THEN st
      ELSE Capture(KeyOf(line), ValueOf(line), st)

\* ParseLoop leaving the loop at a skipped line (break for continue).
RECURSIVE ParseLoopBreaks(_, _, _)
ParseLoopBreaks(runs, line_num, st) ==
  IF runs = << >> THEN st
  ELSE IF line_num > LineLimit THEN st
  ELSE IF Skipped(Strip(Head(runs).line)) THEN st
  ELSE LET st2 == ParseLine(Head(runs).line, st)
       IN  IF Truthy(st2.name) /\ Truthy(st2.modid) THEN st2
           ELSE ParseLoopBreaks(Tail(runs), line_num + Head(runs).count, st2)

\* The for loop over enumerate(f, 1), run by run. line_num is the number of
\* the run's first line; the copies of a line after the first find name and
\* modid as the first left them and change nothing, so a run that starts
\* within the limit is one application of the body.
RECURSIVE ParseLoop(_, _, _)
ParseLoop(runs, line_num, st) ==
  IF runs = << >> THEN st
  ELSE IF line_num > LineLimit THEN st
  ELSE LET st2 == ParseLine(Head(runs).line, st)
       IN  IF Truthy(st2.name) /\ Truthy(st2.modid) THEN st2
           ELSE ParseLoop(Tail(runs), line_num + Head(runs).count, st2)

\* ParseFile with the test of line 581 as name or modid.
ParseFileEitherField(file, workshopid) ==
  LET st == ParseLoop(file.runs, 1, [name |-> None, modid |-> None])
  IN  IF Truthy(st.name) \/ Truthy(st.modid)
      THEN << [name |-> st.name.val, modid |-> st.modid.val,
               workshopid |-> workshopid] >>
      ELSE << >>

\* name = modid = None, the loop, and the dict of lines 581-586; None is << >>.
ParseFile(file, workshopid) ==
  LET st == ParseLoop(file.runs, 1, [name |-> None, modid |-> None])
  IN  IF Truthy(st.name) /\ Truthy(st.modid)
      THEN << [name |-> st.name.val, modid |-> st.modid.val,
               workshopid |-> workshopid] >>
      ELSE << >>

\* _read_mod_info(mod_path, workshopid): no mod.info, or an OSError on
\* opening it, gives None.
read_mod_info(dir, workshopid) ==
  LET found == find_modinfo(dir)
  IN  IF found = << >> THEN << >>
      ELSE IF ~found[1].readable THEN << >>
      ELSE ParseFile(found[1], workshopid)

(***************************************************************************)
(* The table: filter, sort keys, list.sort                                 *)
(***************************************************************************)

\* (mod["name"], mod["modid"], mod["workshopid"]): the values of a table row.
RowOf(mod) == << mod.name, mod.modid, mod.workshopid >>

\* query = self.search_var.get().lower().strip()
QueryOf(text) == Strip(Lower(text))

\* Matches without the test of the workshopid.
MatchesNoWorkshopId(query, mod) ==
  \/ query = << >>
  \/ IsIn(query, Lower(mod.name))
  \/ IsIn(query, Lower(mod.modid))

\* The test of lines 615-618 (and 856-859) for one mod.
Matches(query, mod) ==
  \/ query = << >>
  \/ IsIn(query, Lower(mod.name))
  \/ IsIn(query, Lower(mod.modid))
  \/ IsIn(query, Lower(mod.workshopid))

\* [x for x in seq if Test(x)], in the order of seq.
RECURSIVE SelectMods(_, _)
SelectMods(seq, query) ==
  IF seq = << >> THEN << >>
  ELSE IF Matches(query, Head(seq))
  THEN << Head(seq) >> \o SelectMods(Tail(seq), query)
  ELSE SelectMods(Tail(seq), query)

\* FilteredRows that keeps the last record whatever the query.
FilteredRowsKeepsLast(mod_list, query) ==
  LET sel == IF mod_list = << >> \/ Matches(query, mod_list[Len(mod_list)])
             THEN SelectMods(mod_list, query)
             ELSE SelectMods(mod_list, query) \o << mod_list[Len(mod_list)] >>
  IN  [i \in 1..Len(sel) |-> RowOf(sel[i])]

\* filtered_rows of _apply_filter: the rows the table is filled with.
FilteredRows(mod_list, query) ==
  LET sel == SelectMods(mod_list, query)
  IN  [i \in 1..Len(sel) |-> RowOf(sel[i])]

Digits == {"0", "1", "2", "3", "4", "5", "6", "7", "8", "9"}
DigitValue(c) == Ord(c) - 48

\* The text int() reads a number from: stripped of white space and of one sign.
IntBody(s) ==
  LET t == Strip(s)
  IN  IF t # << >> /\ Head(t) \in {"+", "-"} THEN Tail(t) ELSE t

\* Whether int(s) returns (else it raises ValueError): digits, with single
\* underscores allowed between them.
IsIntLiteral(s) ==
  LET b == IntBody(s)
  IN  /\ b # << >>
      /\ \A i \in 1..Len(b) : b[i] \in Digits \cup {"_"}
      /\ b[1] \in Digits /\ b[Len(b)] \in Digits
      /\ \A i \in 1..(Len(b) - 1) : ~(b[i] = "_" /\ b[i + 1] = "_")

RECURSIVE DigitsValue(_, _)
DigitsValue(b, acc) ==
  IF b = << >> THEN acc
  ELSE IF Head(b) = "_" THEN DigitsValue(Tail(b), acc)
  ELSE DigitsValue(Tail(b), 10 * acc + DigitValue(Head(b)))

\* int(s), where it returns.
IntOf(s) ==
  LET t == Strip(s)
      v == DigitsValue(IntBody(s), 0)
  IN  IF Head(t) = "-" THEN 0 - v ELSE v

\* A sort key is an int or a str: [isint, n, s].
IntKey(n) == [isint |-> TRUE, n |-> n, s |-> << >>]
StrKey(s) == [isint |-> FALSE, n |-> 0, s |-> s]

\* sort_key without the int() of the WorkshopID column.
sort_key_lexical(row, column_index) == StrKey(Lower(row[column_index + 1]))

\* sort_key(item_id) for the row of values of the item.
sort_key(row, column_index) ==
  LET value == row[column_index + 1]
  IN  IF column_index = 2
      THEN IF IsIntLiteral(value) THEN IntKey(IntOf(value))
           ELSE StrKey(Lower(value))
      ELSE StrKey(Lower(value))

\* a < b for two str: by code point, a proper prefix first.
RECURSIVE StrLess(_, _)
StrLess(a, b) ==
  IF b = << >> THEN FALSE
  ELSE IF a = << >> THEN TRUE
  ELSE IF Head(a) = Head(b) THEN StrLess(Tail(a), Tail(b))
  ELSE Ord(Head(a)) < Ord(Head(b))

\* a < b for two keys of one type.
KeyLess(a, b) == IF a.isint THEN a.n < b.n ELSE StrLess(a.s, b.s)

\* list.sort compares an int key with a str key: TypeError. A sort of keys
\* of both types cannot end without comparing two of them.
SortRaises(keys) ==
  \E i, j \in 1..Len(keys) : keys[i].isint # keys[j].isint

\* The place of the next element x in the ordered part, for a stable sort:
\* behind every element it does not come strictly before.
RECURSIVE InsertByKey(_, _, _, _)
InsertByKey(sorted, x, column_index, reverse) ==
  IF sorted = << >> THEN << x >>
  ELSE LET kx == sort_key(x, column_index)
           kh == sort_key(Head(sorted), column_index)
           before == IF reverse THEN KeyLess(kh, kx) ELSE KeyLess(kx, kh)
       IN  IF before THEN << x >> \o sorted
           ELSE << Head(sorted) >> \o InsertByKey(Tail(sorted), x, column_index, reverse)

\* SortedRows that ignores reverse.
RECURSIVE SortedRowsAscending(_, _, _)
SortedRowsAscending(rows, column_index, reverse) ==
  IF rows = << >> THEN << >>
  ELSE InsertByKey(SortedRowsAscending(Upto(rows, Len(rows) - 1), column_index, reverse),
                   rows[Len(rows)], column_index, FALSE)

\* SortedRows that keeps one row of each key only.
RECURSIVE SortedRowsDropsEqual(_, _, _)
SortedRowsDropsEqual(rows, column_index, reverse) ==
  IF rows = << >> THEN << >>
  ELSE LET rest == SortedRowsDropsEqual(Upto(rows, Len(rows) - 1), column_index, reverse)
           x == rows[Len(rows)]
       IN  IF \E i \in 1..Len(rest) :
                sort_key(rest[i], column_index) = sort_key(x, column_index)
           THEN rest
           ELSE InsertByKey(rest, x, column_index, reverse)

\* items.sort(key=sort_key, reverse=reverse_sort), where it does not raise:
\* stable, and with reverse the equal keys keep their order too.
RECURSIVE SortedRows(_, _, _)
SortedRows(rows, column_index, reverse) ==
  IF rows = << >> THEN << >>
  ELSE InsertByKey(SortedRows(Upto(rows, Len(rows) - 1), column_index, reverse),
                   rows[Len(rows)], column_index, reverse)

\* column_indices = {"Name": 0, "ModID": 1, "WorkshopID": 2}
Columns == {"Name", "ModID", "WorkshopID"}
column_indices(col) ==
  CASE col = "Name" -> 0 [] col = "ModID" -> 1 [] col = "WorkshopID" -> 2

(***************************************************************************)
(* csv.writer (the excel dialect)                                          *)
(***************************************************************************)

\* A field holding the delimiter, the quote character or a line break is
\* written in quotes, its quote characters doubled; any other as it is.
RECURSIVE DoubleQuotes(_)
DoubleQuotes(f) ==
  IF f = << >> THEN << >>
  ELSE IF Head(f) = "\"" THEN << "\"", "\"" >> \o DoubleQuotes(Tail(f))
  ELSE << Head(f) >> \o DoubleQuotes(Tail(f))

CsvField(f) ==
  IF \E i \in 1..Len(f) : f[i] \in {",", "\"", "\n", "\r"}
  THEN << "\"" >> \o DoubleQuotes(f) \o << "\"" >>
  ELSE f

\* writer.writerow(fields): the line written, without its line terminator.
RECURSIVE CsvRow(_)
CsvRow(fields) ==
  IF fields = << >> THEN << >>
  ELSE IF Len(fields) = 1 THEN CsvField(fields[1])
  ELSE CsvField(Head(fields)) \o << "," >> \o CsvRow(Tail(fields))

\* ["Name", "ModID", "WorkshopID"]
HeaderFields ==
  << << "N", "a", "m", "e" >>, << "M", "o", "d", "I", "D" >>,
     << "W", "o", "r", "k", "s", "h", "o", "p", "I", "D" >> >>

(***************************************************************************)
(* The disk the application runs on                                        *)
(***************************************************************************)

LnNameAb == << "n", "a", "m", "e", "=", "A", "b" >>
LnIdXY == << "i", "d", "=", "x", ";", "y" >>
LnNameCd == << "N", "a", "m", "e", " ", "=", " ", "\"", "c", "d", "\"" >>
LnIdQ == << "I", "D", "=", "'", "Q", "'" >>
LnComment == << "#", "n", "a", "m", "e", "=", "Z" >>
LnIdK == << "i", "d", "=", "k" >>
LnNameLowAb == << "n", "a", "m", "e", "=", "a", "b" >>
LnNameTm == << "n", "a", "m", "e", "=", "T", ",", "m" >>
LnId12 == << "i", "d", "=", "1", "2" >>
LnNameZz == << "n", "a", "m", "e", "=", "Z", "z" >>

Lines(seq) == [i \in 1..Len(seq) |-> Run(seq[i], 1)]
Direct(seq) == ModDir(<< TextFile(Lines(seq), TRUE) >>, << >>)
Entry(name, is_dir, dir) ==
  [name |-> name, is_dir |-> is_dir, dir |-> dir, raises |-> ""]
NoDir == ModDir(<< >>, << >>)

\* An entry whose is_dir() raises: a symbolic link whose target stat() may
\* not look at (DirEntry.is_dir follows links and raises every OSError but
\* FileNotFoundError).
Link(name, exc) ==
  [name |-> name, is_dir |-> FALSE, dir |-> NoDir, raises |-> exc]

PathA == << "A" >>
PathB == << "B" >>
PathC == << "C" >>
Paths == {PathA, PathB, PathC}

\* What os.scandir yields for the workshop folders, in its order.
ListingA ==
  << Entry(<< "1", "0" >>, TRUE, Direct(<< LnNameAb, LnIdXY >>)),
     Entry(<< "2" >>, TRUE, Direct(<< LnNameCd, LnIdQ >>)),
     Entry(<< "f" >>, FALSE, NoDir),
     Entry(<< "1" >>, TRUE,
           ModDir(<< >>, << TextFile(Lines(<< LnComment, LnIdK, LnNameLowAb >>), TRUE),
                            TextFile(Lines(<< LnNameZz, LnId12 >>), TRUE) >>)),
     Entry(<< "3" >>, TRUE, Direct(<< LnIdK >>)) >>

ListingB ==
  << Entry(<< "A" >>, TRUE, Direct(<< LnNameTm, LnId12 >>)),
     Entry(<< "B" >>, TRUE, Direct(<< LnNameZz >>)),
     Entry(<< "7" >>, TRUE, Direct(<< LnIdK, LnNameLowAb >>)),
     Entry(<< "c" >>, TRUE,
           ModDir(<< TextFile(Lines(<< LnNameAb, LnIdXY >>), FALSE) >>, << >>)) >>

\* A folder with a link to a directory behind a closed one between two mod
\* directories.
ListingC ==
  << Entry(<< "5" >>, TRUE, Direct(<< LnNameAb, LnId12 >>)),
     Link(<< "L" >>, "PermissionError"),
     Entry(<< "6" >>, TRUE, Direct(<< LnNameZz, LnIdK >>)) >>

\* os.path.isdir(path), and the entries of a folder.
IsDir(path) == path \in Paths
Listing(path) ==
  IF path = PathA THEN ListingA ELSE IF path = PathB THEN ListingB ELSE ListingC

\* What the folder entry can hold: nothing, a path that is no directory,
\* and the folders (one typed with a blank after it).
FolderTexts == {<< >>, << "x" >>, PathA \o << " " >>, PathB, PathC}

\* What the search entry can hold.
SearchTexts == {<< >>, << " ", "A" >>, << "1" >>}

(***************************************************************************)
(* The state of ModInfoApp                                                 *)
(***************************************************************************)

VARIABLES
  mod_folder,   \* self.mod_folder: the text of the folder entry
  search_var,   \* self.search_var: the text of the search entry
  status_var,   \* self.status_var: the status bar
  mods,         \* self.mods: the record set, in scan order
  tree,         \* self.tree: the rows of values of the table, top to bottom
  sort_dir,     \* self._sort_dir, as what _sort_dir.get(col, False) returns
  shown_query,  \* the query of the last run of _apply_filter (it filled the table)
  last,         \* the last handler that ran, and what it showed and wrote
  p_file,       \* parser runs: the mod.info text handed to _read_mod_info
  p_result,     \* parser runs: what _read_mod_info returned for p_file
  p_before,     \* parser runs: what it returned, and the number of lines of
                \* p_file, before the last edit
  p_edit        \* parser runs: the last edit of p_file

appVars == << mod_folder, search_var, status_var, mods, tree, sort_dir,
             shown_query, last >>
parseVars == << p_file, p_result, p_before, p_edit >>
vars == << mod_folder, search_var, status_var, mods, tree, sort_dir,
           shown_query, last, p_file, p_result, p_before, p_edit >>

\* The texts of the status bar.
StatusReady == << "Ready." >>
StatusFound(f, s) == << "Found", f, "mods (scanned", s, "folders)" >>
StatusShown(n, t) == << n, "shown /", t, "total" >>
StatusExported(n) == << "Successfully exported", n, "mods to CSV." >>

\* The record of a handler run: the handler, its column (a sort), the
\* message box it showed, whether it ended in an exception nothing caught
\* (which Tk hands to report_callback_exception), the lines it wrote to the
\* CSV file, and (a sort, a filter) the rows and the direction it found; for
\* a sort that follows a sort of the same column at once (twice), the rows
\* and the direction that first sort found; for a filter, whether its query
\* is the one the table was last filled with (twice); for a scan, whether
\* os.scandir itself raised (root_error).
Ran(op) ==
  [op |-> op, col |-> "", dialog |-> "", raised |-> FALSE,
   written |-> << >>, wrote |-> FALSE, tree0 |-> << >>, dir0 |-> FALSE,
   twice |-> FALSE, tree00 |-> << >>, dir00 |-> FALSE, root_error |-> FALSE]

\* __init__: the folder entry holds DEFAULT_MOD_PATH where that is a directory
\* (here PathB), else nothing.
AppInit ==
  /\ mod_folder \in {<< >>, PathB}
  /\ search_var = << >>
  /\ status_var = StatusReady
  /\ mods = << >>
  /\ tree = << >>
  /\ sort_dir = [c \in Columns |-> FALSE]
  /\ shown_query = << >>
  /\ last = Ran("init")

(***************************************************************************)
(* The handlers                                                            *)
(***************************************************************************)

\* browse_folder, or typing into the folder entry: mod_folder is set.
browse_folder(text) ==
  /\ mod_folder' = text
  /\ last' = Ran("browse_folder")
  /\ UNCHANGED << search_var, status_var, mods, tree, sort_dir, shown_query >>

\* A key press (or a paste) in the search entry changes search_var; the
\* filter runs only on the <KeyRelease> that reaches the entry (_on_search).
type_search(text) ==
  /\ text # search_var
  /\ search_var' = text
  /\ last' = Ran("type_search")
  /\ UNCHANGED << mod_folder, status_var, mods, tree, sort_dir, shown_query >>

\* _apply_filter as a step of a handler: the table and the status bar it
\* leaves, for a record set and a search text.
apply_filter_tree(mod_list, text) == FilteredRows(mod_list, QueryOf(text))
apply_filter_status(mod_list, text) ==
  StatusShown(Len(apply_filter_tree(mod_list, text)), Len(mod_list))

\* _on_search: self._apply_filter()
on_search ==
  /\ tree' = apply_filter_tree(mods, search_var)
  /\ status_var' = apply_filter_status(mods, search_var)
  /\ shown_query' = QueryOf(search_var)
  /\ last' = [Ran("on_search") EXCEPT
                !.tree0 = tree, !.twice = (shown_query = QueryOf(search_var))]
  /\ UNCHANGED << mod_folder, search_var, mods, sort_dir >>

\* _clear_search: self.search_var.set(""); self._apply_filter()
clear_search ==
  /\ search_var' = << >>
  /\ tree' = apply_filter_tree(mods, << >>)
  /\ status_var' = apply_filter_status(mods, << >>)
  /\ shown_query' = QueryOf(<< >>)
  /\ last' = Ran("clear_search")
  /\ UNCHANGED << mod_folder, mods, sort_dir >>

\* ScanLoop with scanned_count counting every entry, not only directories.
RECURSIVE ScanLoopCountsFiles(_, _)
ScanLoopCountsFiles(entries, acc) ==
  IF entries = << >> THEN acc
  ELSE LET entry == Head(entries)
           mod_info == read_mod_info(entry.dir, entry.name)
           counted == [acc EXCEPT !.scanned_count = acc.scanned_count + 1]
       IN  IF entry.raises # "" THEN [acc EXCEPT !.exc = entry.raises]
           ELSE IF entry.is_dir /\ mod_info # << >>
           THEN ScanLoopCountsFiles(Tail(entries),
                  [counted EXCEPT !.mods = Append(acc.mods, mod_info[1]),
                                  !.found_count = acc.found_count + 1])
           ELSE ScanLoopCountsFiles(Tail(entries), counted)

\* The for loop of scan_mods over the entries os.scandir yielded; acc is
\* [mods, scanned_count, found_count, exc], exc the exception entry.is_dir()
\* left the loop with (none: the empty string).
RECURSIVE ScanLoop(_, _)
ScanLoop(entries, acc) ==
  IF entries = << >> THEN acc
  ELSE LET entry == Head(entries)
           mod_info == read_mod_info(entry.dir, entry.name)
       IN  IF entry.raises # "" THEN [acc EXCEPT !.exc = entry.raises]
           ELSE IF ~entry.is_dir THEN ScanLoop(Tail(entries), acc)
           ELSE IF mod_info # << >>
           THEN ScanLoop(Tail(entries),
                         [acc EXCEPT !.mods = Append(acc.mods, mod_info[1]),
                                     !.scanned_count = acc.scanned_count + 1,
                                     !.found_count = acc.found_count + 1])
           ELSE ScanLoop(Tail(entries),
                         [acc EXCEPT !.scanned_count = acc.scanned_count + 1])

\* The loop's result for each folder and each number of entries read before
\* os.scandir raised (all of them when it did not), from the cleared state
\* of lines 462-468.
ScanResult ==
  [path \in Paths |->
     [n \in 0..Len(Listing(path)) |->
        ScanLoop(Upto(Listing(path), n),
                 [mods |-> << >>, scanned_count |-> 0, found_count |-> 0,
                  exc |-> ""])]]

\* The message box of each except clause of scan_mods.
ScanDialog(exc) ==
  CASE exc = "PermissionError" -> "Permission denied accessing"
    [] exc = "OSError" -> "System error reading folder"
    [] exc = "Exception" -> "Unexpected error during scan"
    [] OTHER -> ""

\* The message box of the validation of lines 450-459 (none: the empty
\* string).
ScanRefusal(folder_path) ==
  IF folder_path = << >> THEN "Please select a folder to scan."
  ELSE IF ~IsDir(folder_path) THEN "Folder does not exist"
  ELSE ""

\* scan_refused with the clearing of lines 462-464 before the validation.
scan_refused_clears(dialog) ==
  /\ last' = [Ran("scan_mods") EXCEPT !.dialog = dialog]
  /\ mods' = << >>
  /\ tree' = << >>
  /\ UNCHANGED << mod_folder, search_var, status_var, sort_dir, shown_query >>

\* scan_mods where the validation fails: the message box, and return.
scan_refused(dialog) ==
  /\ last' = [Ran("scan_mods") EXCEPT !.dialog = dialog]
  /\ UNCHANGED << mod_folder, search_var, status_var, mods, tree, sort_dir,
                  shown_query >>

\* scan_run with the status set at the end of the try block, not in finally.
scan_run_status_in_try(folder_path, n, exc) ==
  LET acc == ScanResult[folder_path][n]
      raised == IF acc.exc # "" THEN acc.exc ELSE exc
  IN  /\ n \in 0..Len(Listing(folder_path))
      /\ exc = "" => n = Len(Listing(folder_path))
      /\ acc.exc # "" => (exc = "" /\ n = Len(Listing(folder_path)))
      /\ mods' = acc.mods
      /\ tree' = apply_filter_tree(acc.mods, search_var)
      /\ shown_query' = QueryOf(search_var)
      /\ status_var' = IF raised = ""
                       THEN StatusFound(acc.found_count, acc.scanned_count)
                       ELSE apply_filter_status(acc.mods, search_var)
      /\ last' = [Ran("scan_mods") EXCEPT
                    !.dialog = ScanDialog(raised), !.root_error = (exc # "")]
      /\ UNCHANGED << mod_folder, search_var, sort_dir >>

\* scan_mods from line 461 on. exc is the exception os.scandir raises (none:
\* the empty string) and n the number of entries it yielded before; where
\* is_dir() of a yielded entry raises, the loop ends there and os.scandir is
\* not asked again. The except clauses show the message box, and finally
\* runs _apply_filter and sets the status.
scan_run(folder_path, n, exc) ==
  LET acc == ScanResult[folder_path][n]
      raised == IF acc.exc # "" THEN acc.exc ELSE exc
  IN  /\ n \in 0..Len(Listing(folder_path))
      /\ exc = "" => n = Len(Listing(folder_path))
      /\ acc.exc # "" => (exc = "" /\ n = Len(Listing(folder_path)))
      /\ mods' = acc.mods
      /\ tree' = apply_filter_tree(acc.mods, search_var)
      /\ shown_query' = QueryOf(search_var)
      /\ status_var' = StatusFound(acc.found_count, acc.scanned_count)
      /\ last' = [Ran("scan_mods") EXCEPT
                    !.dialog = ScanDialog(raised), !.root_error = (exc # "")]
      /\ UNCHANGED << mod_folder, search_var, sort_dir >>

\* scan_mods
scan_mods(n, exc) ==
  LET folder_path == Strip(mod_folder)
  IN  IF ScanRefusal(folder_path) # ""
      THEN n = 0 /\ exc = "" /\ scan_refused(ScanRefusal(folder_path))
      ELSE scan_run(folder_path, n, exc)

\* toggled that forgets the direction of the other columns.
toggled_resets_others(col, reverse_sort) ==
  [c \in Columns |-> IF c = col THEN ~reverse_sort ELSE FALSE]

\* self._sort_dir[col] = not reverse_sort
toggled(col, reverse_sort) == [sort_dir EXCEPT ![col] = ~reverse_sort]

\* _sort_by(col)
sort_by(col) ==
  LET column_index == column_indices(col)
      reverse_sort == sort_dir[col]
      keys == [i \in 1..Len(tree) |-> sort_key(tree[i], column_index)]
      again == last.op = "sort_by" /\ last.col = col
      ran == [Ran("sort_by") EXCEPT
                !.col = col, !.tree0 = tree, !.dir0 = reverse_sort,
                !.twice = again,
                !.tree00 = IF again THEN last.tree0 ELSE << >>,
                !.dir00 = IF again THEN last.dir0 ELSE FALSE]
  IN  IF tree = << >>
      THEN /\ last' = ran
           /\ UNCHANGED << mod_folder, search_var, status_var, mods, tree, sort_dir,
                           shown_query >>
      ELSE IF SortRaises(keys)
      THEN /\ last' = [ran EXCEPT !.raised = TRUE]
           /\ UNCHANGED << mod_folder, search_var, status_var, mods, tree, sort_dir,
                           shown_query >>
      ELSE /\ tree' = SortedRows(tree, column_index, reverse_sort)
           /\ sort_dir' = toggled(col, reverse_sort)
           /\ last' = ran
           /\ UNCHANGED << mod_folder, search_var, status_var, mods, shown_query >>

\* export_lines writing every mod, not the filtered ones.
export_lines_all(mod_list, text) ==
  << CsvRow(HeaderFields) >> \o
  [i \in 1..Len(mod_list) |-> CsvRow(RowOf(mod_list[i]))]

\* The lines export_csv writes: the header row, then a row for each of
\* filtered_mods.
export_lines(mod_list, text) ==
  LET filtered_mods == SelectMods(mod_list, QueryOf(text))
  IN  << CsvRow(HeaderFields) >> \o
      [i \in 1..Len(filtered_mods) |-> CsvRow(RowOf(filtered_mods[i]))]

\* The message box of each except clause of export_csv.
ExportDialog(exc) ==
  CASE exc = "PermissionError" -> "Permission denied writing"
    [] exc = "OSError" -> "System error writing file"
    [] exc = "Exception" -> "Unexpected error during export"
    [] OTHER -> ""

\* export_failed that has set the status before the file was opened.
export_failed_status_first(exc) ==
  /\ last' = [Ran("export_csv") EXCEPT !.dialog = ExportDialog(exc)]
  /\ status_var' = StatusExported(Len(SelectMods(mods, QueryOf(search_var))))
  /\ UNCHANGED << mod_folder, search_var, mods, tree, sort_dir, shown_query >>

\* export_csv where open() or a write raises: the message box of the except
\* clause, and nothing else.
export_failed(exc) ==
  /\ last' = [Ran("export_csv") EXCEPT !.dialog = ExportDialog(exc)]
  /\ UNCHANGED << mod_folder, search_var, status_var, mods, tree, sort_dir,
                  shown_query >>

\* export_csv. chosen says whether the save dialog returned a path, exc is
\* the exception open() or a write raises (none: the empty string).
export_csv(chosen, exc) ==
  IF mods = << >>
  THEN /\ chosen = FALSE /\ exc = ""
       /\ last' = [Ran("export_csv") EXCEPT
                     !.dialog = "No mods to export. Please scan a folder first."]
       /\ UNCHANGED << mod_folder, search_var, status_var, mods, tree, sort_dir,
                       shown_query >>
  ELSE IF ~chosen
  THEN /\ exc = ""
       /\ last' = Ran("export_csv")
       /\ UNCHANGED << mod_folder, search_var, status_var, mods, tree, sort_dir,
                       shown_query >>
  ELSE IF exc # ""
  THEN export_failed(exc)
  ELSE /\ last' = [Ran("export_csv") EXCEPT
                     !.written = export_lines(mods, search_var), !.wrote = TRUE]
       /\ status_var' =
            StatusExported(Len(SelectMods(mods, QueryOf(search_var))))
       /\ UNCHANGED << mod_folder, search_var, mods, tree, sort_dir, shown_query >>

Exceptions == {"", "PermissionError", "OSError", "Exception"}
MaxEntries == Len(ListingA)

ParseIdle ==
  /\ p_file = TextFile(<< >>, TRUE)
  /\ p_result = << >>
  /\ p_before = [result |-> << >>, lines |-> 0]
  /\ p_edit = "none"

Init == AppInit /\ ParseIdle

\* root.mainloop(): one handler at a time. A handler that ends in an
\* exception (last.raised) has run _error_handler and _fatal, which logs, shows
\* the dialog, waits for Enter and returns; the loop then takes the next event.
Next ==
  \/ (\E text \in FolderTexts : browse_folder(text)) /\ UNCHANGED parseVars
  \/ (\E text \in SearchTexts : type_search(text)) /\ UNCHANGED parseVars
  \/ on_search /\ UNCHANGED parseVars
  \/ clear_search /\ UNCHANGED parseVars
  \/ (\E n \in 0..MaxEntries, exc \in Exceptions : scan_mods(n, exc))
       /\ UNCHANGED parseVars
  \/ (\E col \in Columns : sort_by(col)) /\ UNCHANGED parseVars
  \/ (\E chosen \in BOOLEAN, exc \in Exceptions : export_csv(chosen, exc))
       /\ UNCHANGED parseVars

Spec == Init /\ [][Next]_vars

(***************************************************************************)
(* Runs of the parser alone: _read_mod_info on a mod.info drawn from a     *)
(* pool of lines, then on the same text with skipped lines put in or taken *)
(* out.                                                                    *)
(***************************************************************************)

\* The most runs of lines a drawn mod.info has.
MaxRuns == 3

LnNameEmpty == << "n", "a", "m", "e", "=" >>
LnNameTwoQuotes == << "n", "a", "m", "e", "=", "\"", "\"", "e", "\"", "\"" >>
LnIdNoFirst == << "i", "d", "=", ";", "z" >>
LnSlashes == << "/", "/", "i", "d", "=", "w" >>
LnJunk == << "x", "y" >>
LnNameEq == << "n", "a", "m", "e", "=", "a", "=", "b" >>

\* Lines the test of line 557 skips: a # comment, a // comment, a line with
\* no =; the first also as a run of LineLimit lines.
SkippedRuns ==
  {Run(LnComment, 1), Run(LnSlashes, 1), Run(LnJunk, 1), Run(LnComment, LineLimit)}

PoolRuns ==
  {Run(LnNameAb, 1), Run(LnNameCd, 1), Run(LnNameEmpty, 1), Run(LnNameTwoQuotes, 1),
   Run(LnNameEq, 1), Run(LnIdXY, 1), Run(LnIdNoFirst, 1), Run(LnIdQ, 1)}
  \cup SkippedRuns

\* A raw line that begins with # or //, or holds no =.
IsCommentOrNoEquals(raw_line) ==
  \/ StartsWith(raw_line, << "#" >>)
  \/ StartsWith(raw_line, << "/", "/" >>)
  \/ ~IsIn(<< "=" >>, raw_line)

\* The directory name the parser runs pass as workshopid.
ParseWorkshopId == << "W" >>

InsertAt(seq, i, x) == Upto(seq, i - 1) \o << x >> \o From(seq, i - 1)
RemoveAt(seq, i) == Upto(seq, i - 1) \o From(seq, i)

\* _read_mod_info on a mod directory whose mod.info is the text.
ParseOf(file) == read_mod_info(ModDir(<< file >>, << >>), ParseWorkshopId)

AppIdle ==
  /\ mod_folder = << >>
  /\ search_var = << >>
  /\ status_var = StatusReady
  /\ mods = << >>
  /\ tree = << >>
  /\ sort_dir = [c \in Columns |-> FALSE]
  /\ shown_query = << >>
  /\ last = Ran("init")

ParseInit ==
  /\ AppIdle
  /\ p_file \in {TextFile(runs, TRUE) :
                   runs \in UNION {[1..n -> PoolRuns] : n \in 0..MaxRuns}}
  /\ p_result = << >>
  /\ p_before = [result |-> << >>, lines |-> 0]
  /\ p_edit = "new"

\* _read_mod_info reads the drawn text.
parse_read ==
  /\ p_edit = "new"
  /\ p_result' = ParseOf(p_file)
  /\ p_edit' = "read"
  /\ UNCHANGED << p_file, p_before >>

\* A skipped line (or run of them) is put in before line i, and the text is
\* read again.
parse_insert(i, run) ==
  /\ p_edit # "new"
  /\ Len(p_file.runs) < MaxRuns
  /\ i \in 1..(Len(p_file.runs) + 1)
  /\ IsCommentOrNoEquals(run.line)
  /\ p_file' = [p_file EXCEPT !.runs = InsertAt(p_file.runs, i, run)]
  /\ p_before' = [result |-> p_result, lines |-> LineCount(p_file.runs)]
  /\ p_result' = ParseOf(p_file')
  /\ p_edit' = "insert"

\* A skipped line (or run of them) is taken out, and the text is read again.
parse_delete(i) ==
  /\ p_edit # "new"
  /\ i \in 1..Len(p_file.runs)
  /\ IsCommentOrNoEquals(p_file.runs[i].line)
  /\ p_file' = [p_file EXCEPT !.runs = RemoveAt(p_file.runs, i)]
  /\ p_before' = [result |-> p_result, lines |-> LineCount(p_file.runs)]
  /\ p_result' = ParseOf(p_file')
  /\ p_edit' = "delete"

ParseNext ==
  \/ parse_read /\ UNCHANGED appVars
  \/ (\E i \in 1..MaxRuns, run \in SkippedRuns : parse_insert(i, run))
       /\ UNCHANGED appVars
  \/ (\E i \in 1..MaxRuns : parse_delete(i)) /\ UNCHANGED appVars

ParseSpec == ParseInit /\ [][ParseNext]_vars

(***************************************************************************)
(* Properties                                                              *)
(***************************************************************************)

\* The keys of the lines of a text that the parser does not skip.
KeysOf(file) ==
  {KeyOf(Strip(file.runs[i].line)) :
     i \in {j \in 1..Len(file.runs) : ~Skipped(Strip(file.runs[j].line))}}

\* A mod directory with no mod.info, or whose mod.info has no name line or
\* no id line.
LacksNameOrId(dir) ==
  \/ find_modinfo(dir) = << >>
  \/ << "n", "a", "m", "e" >> \notin KeysOf(find_modinfo(dir)[1])
  \/ << "i", "d" >> \notin KeysOf(find_modinfo(dir)[1])

\* scan_mods ran the scan loop to its end: the folder was a directory and
\* nothing raised.
ScanCompleted ==
  /\ last.op = "scan_mods"
  /\ last.dialog = ""

C2_RecordsHaveNameAndModid ==
  /\ \A k \in 1..Len(mods) : mods[k].name # << >> /\ mods[k].modid # << >>
  /\ \A path \in Paths : \A i \in 1..Len(Listing(path)) :
       (Listing(path)[i].is_dir /\ LacksNameOrId(Listing(path)[i].dir)) =>
         \A k \in 1..Len(mods) : mods[k].workshopid # Listing(path)[i].name

\* Folder B, whose subdirectory B has a mod.info with no id line, was scanned
\* to its end and left the records of its two complete subdirectories.
C2_Witness ==
  /\ ScanCompleted
  /\ Strip(mod_folder) = PathB
  /\ LacksNameOrId(ListingB[2].dir)
  /\ Len(mods) = 2

\* The number of the first line of run i of a text.
StartLine(runs, i) == 1 + LineCount(Upto(runs, i - 1))

\* The runs of a text whose lines the parser does not skip; and those of
\* them that start within the line limit.
AcceptedRuns(file) ==
  {i \in 1..Len(file.runs) : ~Skipped(Strip(file.runs[i].line))}
AcceptedRunsInLimit(file) ==
  {i \in AcceptedRuns(file) : StartLine(file.runs, i) <= LineLimit}

\* Key and value of run i of a text, as the parser splits its line.
RunKey(file, i) == KeyOf(Strip(file.runs[i].line))
RunValue(file, i) == ValueOf(Strip(file.runs[i].line))

\* Among the runs S: the name lines with a value, the id lines with a value,
\* and the first segment of an id value, trimmed.
NameRuns(file, S) ==
  {i \in S : RunKey(file, i) = << "n", "a", "m", "e" >> /\ RunValue(file, i) # << >>}
IdRuns(file, S) ==
  {i \in S : RunKey(file, i) = << "i", "d" >> /\ RunValue(file, i) # << >>}
IdSegment(file, i) == Strip(FirstSegment(RunValue(file, i), ";"))

Min(S) == CHOOSE i \in S : \A j \in S : i <= j

\* C3 as claimed: whenever a text has a name line and an id line with a
\* value, _read_mod_info returns a record, and its modid is the first
\* ;-segment of (the quote-stripped value of) such an id line.
C3_AsClaimed ==
  (/\ p_edit # "new"
   /\ NameRuns(p_file, AcceptedRuns(p_file)) # {}
   /\ IdRuns(p_file, AcceptedRuns(p_file)) # {}) =>
    /\ p_result # << >>
    /\ \E i \in IdRuns(p_file, AcceptedRuns(p_file)) :
         p_result[1].modid = IdSegment(p_file, i)

\* C3, amended: whenever the first LineLimit lines of a text hold a name line
\* with a value and an id line whose value has a non-empty first ;-segment,
\* _read_mod_info returns a record, and its modid is that segment (quotes
\* stripped from the value, the segment trimmed) of the first such id line.
C3_ModidIsFirstSegment ==
  LET S == AcceptedRunsInLimit(p_file)
      ids == {i \in IdRuns(p_file, S) : IdSegment(p_file, i) # << >>}
  IN  (p_edit # "new" /\ NameRuns(p_file, S) # {} /\ ids # {}) =>
        /\ p_result # << >>
        /\ p_result[1].modid = IdSegment(p_file, Min(ids))
        /\ p_result[1].name = RunValue(p_file, Min(NameRuns(p_file, S)))

\* A text with a name line, then an id line with an empty first segment,
\* then an id line with two segments was read: the record has the first
\* segment of the third line as its modid.
C3_Witness ==
  /\ p_edit = "read"
  /\ Len(p_file.runs) = 3
  /\ p_file.runs[2].line = LnIdNoFirst
  /\ p_file.runs[3].line = LnIdXY
  /\ p_result # << >>
  /\ p_result[1].modid = << "x" >>

\* The last step put in or took out lines that begin with # or //, or hold
\* no =.
SkippedLinesEdited == p_edit \in {"insert", "delete"}

\* C4 as claimed: putting in or taking out any number of lines that begin
\* with # or //, or hold no =, at any place, leaves what _read_mod_info
\* returns unchanged.
C4_AsClaimed ==
  SkippedLinesEdited => p_result = p_before.result

\* C4, amended: putting in or taking out such lines leaves what
\* _read_mod_info returns unchanged, provided the text has at most
\* LineLimit lines before and after the change.
C4_SkippedLinesWithinLimit ==
  (/\ SkippedLinesEdited
   /\ p_before.lines <= LineLimit
   /\ LineCount(p_file.runs) <= LineLimit) =>
    p_result = p_before.result

\* A comment line was put between the name line and the id line of a text
\* that yields a record, and the record is the same.
C4_Witness ==
  /\ p_edit = "insert"
  /\ Len(p_file.runs) = 3
  /\ p_file.runs[1].line = LnNameAb
  /\ p_file.runs[2] = Run(LnComment, 1)
  /\ p_file.runs[3].line = LnIdXY
  /\ p_result # << >>
  /\ p_result = p_before.result

\* q is a substring of s, case ignored.
ContainsNoCase(q, s) ==
  \E off \in 0..(Len(s) - Len(q)) :
    \A k \in 1..Len(q) : LowerChar(q[k]) = LowerChar(s[off + k])

\* The query of a search text: the text without the white space around it.
\* Its case is ignored in every comparison.
TrimmedQuery == Strip(search_var)

\* The places in the record set of the records that hold the query in their
\* name, modid or workshopid, case ignored.
MatchingPlaces ==
  {i \in 1..Len(mods) :
     \/ ContainsNoCase(TrimmedQuery, mods[i].name)
     \/ ContainsNoCase(TrimmedQuery, mods[i].modid)
     \/ ContainsNoCase(TrimmedQuery, mods[i].workshopid)}

\* The k-th smallest element of a set of numbers.
Nth(S, k) == CHOOSE i \in S : Cardinality({j \in S : j <= i}) = k

\* The last handler ran _apply_filter: _on_search, _clear_search, or a
\* scan_mods that got past the validation of the folder.
FilterApplied ==
  \/ last.op \in {"on_search", "clear_search"}
  \/ /\ last.op = "scan_mods"
     /\ last.dialog \notin {"Please select a folder to scan.", "Folder does not exist"}

\* C5: after _apply_filter the table shows exactly the records of the record
\* set that hold the query (the search text, trimmed) in name, modid or
\* workshopid, case ignored, in scan order; an empty query shows them all.
C5_FilterShowsMatches ==
  FilterApplied =>
    /\ Len(tree) = Cardinality(MatchingPlaces)
    /\ \A k \in 1..Len(tree) : tree[k] = RowOf(mods[Nth(MatchingPlaces, k)])
    /\ TrimmedQuery = << >> => Len(tree) = Len(mods)

\* The search text blank-A was applied to the three records of folder A:
\* the table shows the two whose name holds an a, the first before the third.
C5_Witness ==
  /\ last.op = "on_search"
  /\ search_var = << " ", "A" >>
  /\ Len(mods) = 3
  /\ Len(tree) = 2
  /\ tree[1] = RowOf(mods[1])
  /\ tree[2] = RowOf(mods[3])

\* export_csv wrote the file.
Exported == last.op = "export_csv" /\ last.wrote

\* C6: a successful export_csv writes the header row Name,ModID,WorkshopID
\* first, then exactly one row for each record of the record set that holds
\* the current query in some field, case ignored, and no other row.
C6_ExportWritesMatches ==
  Exported =>
    /\ last.written[1] =
         << "N", "a", "m", "e", ",", "M", "o", "d", "I", "D", ",",
            "W", "o", "r", "k", "s", "h", "o", "p", "I", "D" >>
    /\ Len(last.written) = 1 + Cardinality(MatchingPlaces)
    /\ \A k \in 1..Cardinality(MatchingPlaces) :
         last.written[k + 1] = CsvRow(RowOf(mods[Nth(MatchingPlaces, k)]))

\* An export of folder A's three records under the search text 1 wrote the
\* header and the two records whose workshopid holds a 1.
C6_Witness ==
  /\ Exported
  /\ search_var = << "1" >>
  /\ Len(mods) = 3
  /\ Len(last.written) = 3

\* The number of times x occurs in a sequence.
Count(seq, x) == Cardinality({i \in 1..Len(seq) : seq[i] = x})

\* Two sequences hold the same elements the same number of times.
SameElements(a, b) ==
  /\ Len(a) = Len(b)
  /\ \A i \in 1..Len(a) : Count(a, a[i]) = Count(b, a[i])

\* C7: whatever scans, search text changes, filters, sorts and exports came
\* before, the data rows export_csv writes are exactly the rows the table
\* shows at the time of the export, one row for each visible record.
C7_ExportWritesVisibleRows ==
  Exported =>
    SameElements(Tail(last.written), [i \in 1..Len(tree) |-> CsvRow(tree[i])])

\* The rows are in the order of their keys in a column: rising (falling,
\* with reverse), equal keys side by side in any order.
OrderedBy(rows, column_index, reverse) ==
  \A i, j \in 1..Len(rows) :
    i < j =>
      LET ki == sort_key(rows[i], column_index)
          kj == sort_key(rows[j], column_index)
      IN  IF reverse THEN ~KeyLess(ki, kj) ELSE ~KeyLess(kj, ki)

\* _sort_by has just run for the second time in a row on one column.
SortedTwice == last.op = "sort_by" /\ last.twice

\* C8 as claimed: _sort_by twice in a row on one column returns the visible
\* rows to the order they had before the first of the two.
C8_AsClaimed ==
  SortedTwice => tree = last.tree00

\* C8, amended: _sort_by twice in a row on one column returns the remembered
\* direction of the column to what it was before the first of the two and
\* leaves the same rows visible; when the second sort completes, the rows are
\* in the order of that column in the direction the second sort found, which
\* is in general not the order they had before the first.
C8_DirectionTogglesBack ==
  SortedTwice =>
    /\ sort_dir[last.col] = last.dir00
    /\ SameElements(tree, last.tree00)
    /\ ~last.raised => OrderedBy(tree, column_indices(last.col), last.dir0)

\* The Name column of folder A's three rows was sorted twice: the second sort
\* was a falling one, the direction is rising again, and the rows are not in
\* the order they had.
C8_Witness ==
  /\ SortedTwice
  /\ last.col = "Name"
  /\ Len(tree) = 3
  /\ last.dir0 = TRUE
  /\ sort_dir["Name"] = FALSE
  /\ tree # last.tree00

\* The WorkshopID of every row int() can read.
AllNumeric(rows) == \A i \in 1..Len(rows) : IsIntLiteral(rows[i][3])

\* The integer of the WorkshopID of row i.
WorkshopNumber(rows, i) == IntOf(rows[i][3])

\* _sort_by has just run on the WorkshopID column of a table with rows.
SortedByWorkshopId ==
  /\ last.op = "sort_by"
  /\ last.col = "WorkshopID"
  /\ last.tree0 # << >>

\* C9: when int() reads every visible workshopid, a rising sort of the
\* WorkshopID column puts the rows in the order of the integers (10, 2, 1
\* becomes 1, 2, 10, not 1, 10, 2) and a falling sort in the reverse order
\* of the integers; the rows are the ones that were there.
C9_NumericWorkshopSort ==
  (SortedByWorkshopId /\ AllNumeric(last.tree0)) =>
    /\ ~last.raised
    /\ SameElements(tree, last.tree0)
    /\ \A i, j \in 1..Len(tree) :
         i < j =>
           IF last.dir0
           THEN WorkshopNumber(tree, i) >= WorkshopNumber(tree, j)
           ELSE WorkshopNumber(tree, i) <= WorkshopNumber(tree, j)

\* Folder A's rows 10, 2, 1 after a rising sort of the WorkshopID column:
\* 1, 2, 10.
C9_Witness ==
  /\ SortedByWorkshopId
  /\ ~last.dir0
  /\ [i \in 1..Len(last.tree0) |-> last.tree0[i][3]] =
       << << "1", "0" >>, << "2" >>, << "1" >> >>
  /\ [i \in 1..Len(tree) |-> tree[i][3]] =
       << << "1" >>, << "2" >>, << "1", "0" >> >>

\* Some visible workshopid int() can read and some it cannot.
MixedWorkshopIds(rows) ==
  /\ \E i \in 1..Len(rows) : IsIntLiteral(rows[i][3])
  /\ \E i \in 1..Len(rows) : ~IsIntLiteral(rows[i][3])

\* C10: a sort of the WorkshopID column of rows of which int() reads some
\* workshopid and not some other ends without an error: the rows are
\* compared as strings, case ignored, and end in that order, and the
\* remembered direction of the column is toggled.
C10_MixedSortCompletes ==
  (SortedByWorkshopId /\ MixedWorkshopIds(last.tree0)) =>
    /\ ~last.raised
    /\ sort_dir["WorkshopID"] = ~last.dir0
    /\ SameElements(tree, last.tree0)
    /\ \A i, j \in 1..Len(tree) :
         i < j =>
           IF last.dir0
           THEN ~StrLess(Lower(tree[i][3]), Lower(tree[j][3]))
           ELSE ~StrLess(Lower(tree[j][3]), Lower(tree[i][3]))

\* scan_mods got past the validation of the folder and ran the scan.
ScanRan == last.op = "scan_mods" /\ ScanRefusal(Strip(mod_folder)) = ""

\* C11: a failure on one candidate subdirectory or its mod.info never ends a
\* scan. After a scan in which os.scandir itself raised nothing, no error
\* was shown, every subdirectory whose mod.info yields a name and an id has
\* its record, and every subdirectory was counted.
C11_EntryFailuresDoNotAbort ==
  (ScanRan /\ ~last.root_error) =>
    LET entries == Listing(Strip(mod_folder))
        subdirs == {i \in 1..Len(entries) : entries[i].is_dir}
        yields == {i \in subdirs :
                     read_mod_info(entries[i].dir, entries[i].name) # << >>}
    IN  /\ last.dialog = ""
        /\ \A i \in yields :
             \E k \in 1..Len(mods) : mods[k].workshopid = entries[i].name
        /\ \E s \in Cardinality(subdirs)..Len(entries) :
             status_var = StatusFound(Len(mods), s)

\* The message boxes of the except clauses of export_csv.
ExportErrorDialogs ==
  {"Permission denied writing", "System error writing file",
   "Unexpected error during export"}

\* C12: a step of export_csv in which opening or writing the file fails,
\* which the message box of an except clause reports, leaves the record set,
\* the rows of the table and their order, the search text, the remembered
\* sort directions and the status text as they were.
C12_FailedExportChangesNothing ==
  [][(last'.op = "export_csv" /\ last'.dialog \in ExportErrorDialogs) =>
       (/\ ~last'.wrote
        /\ UNCHANGED << mods, tree, search_var, sort_dir, status_var >>)]_vars

\* A failed export of a filtered and sorted table: two of folder A's three
\* records are shown, the Name column was sorted, and the export ended in the
\* message box of PermissionError.
C12_Witness ==
  /\ last.op = "export_csv"
  /\ last.dialog = "Permission denied writing"
  /\ Len(mods) = 3
  /\ Len(tree) = 2
  /\ search_var # << >>
  /\ sort_dir["Name"]
  /\ status_var = StatusShown(2, 3)

\* A row of the table holds the query in its name, modid or workshopid, case
\* ignored.
RowHolds(row, query) ==
  \E c \in 1..3 : ContainsNoCase(query, row[c])

\* _on_search has just run with the query the table was last filled with
\* (the record set is the same: every change of it ends in a filter).
FilteredAgain == last.op = "on_search" /\ last.twice

\* C13: _apply_filter run again with the same query on the same record set
\* shows the same set of rows as before, and every row it shows holds the
\* query, so that filtering the shown rows by the query would remove none.
C13_FilterIdempotent ==
  /\ FilteredAgain => SameElements(tree, last.tree0)
  /\ FilterApplied => \A k \in 1..Len(tree) : RowHolds(tree[k], TrimmedQuery)

\* The filter ran a second time with the query 1 on folder A's records, the
\* table sorted in between: it shows the same two of the three rows.
C13_Witness ==
  /\ FilteredAgain
  /\ search_var = << "1" >>
  /\ Len(mods) = 3
  /\ Len(tree) = 2
  /\ tree # last.tree0

\* C14: an exception no handler caught is logged and shown by _fatal, which
\* waits for the acknowledgment, and then the process exits: after a handler
\* that ended in such an exception no UI action is processed any more.
C14_NoActionAfterFatal ==
  [][last.raised => UNCHANGED appVars]_vars

\* name and modid as the parser holds them after the first k runs of a text.
FieldsAfter(file, k) ==
  ParseLoop(Upto(file.runs, k), 1, [name |-> None, modid |-> None])

\* C15 as claimed: the name of the record is the value of the first name
\* line with a value, and its modid the first ;-segment of the value of the
\* first id line with a value.
C15_AsClaimed ==
  (p_edit # "new" /\ p_result # << >>) =>
    LET S == AcceptedRunsInLimit(p_file)
    IN  /\ p_result[1].name = RunValue(p_file, Min(NameRuns(p_file, S)))
        /\ p_result[1].modid = IdSegment(p_file, Min(IdRuns(p_file, S)))

\* C15, amended: the name of the record is the value of the first name line
\* with a value, and its modid the first ;-segment of the first id line
\* whose first ;-segment is not empty; and once the parser holds a name or a
\* modid, no later line of the text changes it.
C15_FirstOccurrenceWins ==
  p_edit # "new" =>
    LET S == AcceptedRunsInLimit(p_file)
        ids == {i \in IdRuns(p_file, S) : IdSegment(p_file, i) # << >>}
        end == FieldsAfter(p_file, Len(p_file.runs))
    IN  /\ p_result # << >> =>
             /\ p_result[1].name = RunValue(p_file, Min(NameRuns(p_file, S)))
             /\ p_result[1].modid = IdSegment(p_file, Min(ids))
        /\ \A k \in 0..Len(p_file.runs) :
             /\ Truthy(FieldsAfter(p_file, k).name) =>
                  end.name = FieldsAfter(p_file, k).name
             /\ Truthy(FieldsAfter(p_file, k).modid) =>
                  end.modid = FieldsAfter(p_file, k).modid

\* A text with two name lines of different values and then an id line was
\* read: the record has the name of the first.
C15_Witness ==
  /\ p_edit = "read"
  /\ Len(p_file.runs) = 3
  /\ p_file.runs[1].line = LnNameAb
  /\ p_file.runs[2].line = LnNameCd
  /\ p_file.runs[3].line = LnIdXY
  /\ p_result # << >>
  /\ p_result[1].name = << "A", "b" >>

\* C16 as claimed: every step of _sort_by on a column flips the remembered
\* direction of that column and leaves that of every other column.
C16_AsClaimed ==
  [][last'.op = "sort_by" =>
       sort_dir' = [sort_dir EXCEPT ![last'.col] = ~sort_dir[last'.col]]]_vars

\* C16, amended: a step of _sort_by on a column flips the remembered
\* direction of that column when the table has rows and the sort completes,
\* and leaves it when the table is empty or the sort raises; in every case
\* it leaves the remembered direction of every other column.
C16_SortTogglesOwnColumn ==
  [][last'.op = "sort_by" =>
       /\ \A c \in Columns \ {last'.col} : sort_dir'[c] = sort_dir[c]
       /\ sort_dir'[last'.col] =
            IF tree = << >> \/ last'.raised
            THEN sort_dir[last'.col]
            ELSE ~sort_dir[last'.col]]_vars

\* Sorts of the three columns in turn and then of ModID again: the ModID
\* column is back at rising, the other two are still at falling.
C16_Witness ==
  /\ last.op = "sort_by"
  /\ last.col = "ModID"
  /\ ~last.raised
  /\ tree # << >>
  /\ last.dir0
  /\ sort_dir = [c \in Columns |-> c # "ModID"]

\* The text of a stripped line before its first = and the text after it.
EqualsAt(line) == Min({k \in 1..Len(line) : line[k] = "="})
BeforeEquals(line) == [k \in 1..(EqualsAt(line) - 1) |-> line[k]]
AfterEquals(line) ==
  [k \in 1..(Len(line) - EqualsAt(line)) |-> line[EqualsAt(line) + k]]

\* A value without one layer of quotes around it: the first and the last
\* character go when they are the same quote character.
OneLayerOff(v) ==
  IF Len(v) >= 2 /\ v[1] = v[Len(v)] /\ v[1] \in {"\"", "'"}
  THEN [k \in 1..(Len(v) - 2) |-> v[k + 1]]
  ELSE v

\* A value without the run of the character c at its start and at its end.
RECURSIVE WithoutAround(_, _)
WithoutAround(v, c) ==
  IF v # << >> /\ v[1] = c THEN WithoutAround(Tail(v), c)
  ELSE IF v # << >> /\ v[Len(v)] = c
  THEN WithoutAround([k \in 1..(Len(v) - 1) |-> v[k]], c)
  ELSE v

\* A value without every double quote and then every single quote around it.
AllLayersOff(v) == WithoutAround(WithoutAround(v, "\""), "'")

\* The key of run i of a text: before the first =, trimmed, in lower case.
LineKey(file, i) == Lower(Strip(BeforeEquals(Strip(file.runs[i].line))))

\* The trimmed value of run i of a text: after the first =.
LineValue(file, i) == Strip(AfterEquals(Strip(file.runs[i].line)))

ShownPlaces ==
  {i \in 1..Len(mods) : RowHolds(RowOf(mods[i]), shown_query)}
ShownRecords ==
  [k \in 1..Cardinality(ShownPlaces) |-> RowOf(mods[Nth(ShownPlaces, k)])]

\* C18: in every reachable state the rows of the table are, each as often,
\* the rows of the records of the record set that hold the query of the
\* last run of _apply_filter: _sort_by only changes their order.
C18_RowsAreTheMatches ==
  SameElements(tree, ShownRecords)

\* Two of folder A's three records were shown for the query 1, the search
\* text was changed after that, and a sort has put the two rows in another
\* order than the scan order.
C18_Witness ==
  /\ last.op = "sort_by"
  /\ shown_query = << "1" >>
  /\ search_var # << "1" >>
  /\ Len(mods) = 3
  /\ Len(tree) = 2
  /\ tree # ShownRecords

\* C19: every scan that got past the validation of the folder, whether its
\* loop ran to the end or an exception ended it, leaves the status Found f
\* mods (scanned s folders) with f the number of records of the record set
\* and f <= s, and the table filled from the record set by the filter.
C19_ScanEndsWithFoundStatus ==
  ScanRan =>
    /\ \E s \in Len(mods)..MaxEntries : status_var = StatusFound(Len(mods), s)
    /\ tree = [k \in 1..Cardinality(MatchingPlaces) |->
                 RowOf(mods[Nth(MatchingPlaces, k)])]
    /\ shown_query = Lower(TrimmedQuery)

\* A scan of folder A that os.scandir ended with an exception after three
\* entries, under the search text 1: two records, two folders counted, one
\* row shown.
C19_Witness ==
  /\ ScanRan
  /\ last.root_error
  /\ last.dialog = "System error reading folder"
  /\ search_var = << "1" >>
  /\ status_var = StatusFound(2, 2)
  /\ Len(mods) = 2
  /\ Len(tree) = 1

\* C20: a step of scan_mods with a folder text that is empty (or blank) or
\* names no directory shows the error of the validation and leaves the
\* record set, the rows of the table, the status text and the remembered
\* sort directions as they were.
C20_RefusedScanChangesNothing ==
  [][(last'.op = "scan_mods" /\ ScanRefusal(Strip(mod_folder)) # "") =>
       (/\ last'.dialog \in {"Please select a folder to scan.",
                             "Folder does not exist"}
        /\ UNCHANGED << mods, tree, status_var, sort_dir >>)]_vars

\* A scan of a path that is no directory was refused while the table showed
\* the sorted rows of an earlier scan.
C20_Witness ==
  /\ last.op = "scan_mods"
  /\ last.dialog = "Folder does not exist"
  /\ mod_folder = << "x" >>
  /\ Len(mods) = 3
  /\ Len(tree) = 3
  /\ sort_dir["WorkshopID"]
  /\ status_var = StatusFound(3, 4)

=============================================================================
